---- MODULE Spec2Model ----
(***************************************************************************)
(* Invoice OCR service: the heuristic text parser (parseInvoiceText), the  *)
(* LLM JSON normalizer (normalizeInvoiceJson), the /analyze-invoice        *)
(* handler of the LLM variant, and the InvoiceUploadPanel component.       *)
(*                                                                         *)
(* Text is a sequence of one-character strings, JavaScript values are      *)
(* tagged records, and a JavaScript number is a decimal m * 10^e that      *)
(* keeps the double's range (overflow to Infinity, NaN) and MantDigits     *)
(* significant digits of its precision.                                    *)
(***************************************************************************)
EXTENDS Integers, Sequences, FiniteSets, TLC

VARIABLES
    phase,      \* core functions: "idle", "called" or "returned"
    fn,         \* core functions: the function called
    arg,        \* core functions: its argument
    ret,        \* core functions: its return value
    fed,        \* core functions: TRUE when arg is a value normalizeInvoiceJson returned
    apiKey,     \* handler: whether OPENAI_API_KEY is set
    reqs,       \* handler: per request, its position and what it has done
    cvId,       \* panel: this.contentVersionId (0 when unset)
    isProcessing, \* panel: this.isProcessing
    calls,      \* panel: per handleProcessInvoice invocation, its position
    invoiceResult \* panel: this.invoiceResult (0 when unset)

vars == <<phase, fn, arg, ret, fed, apiKey, reqs, cvId, isProcessing, calls, invoiceResult>>
coreVars == <<phase, fn, arg, ret, fed>>
serviceVars == <<apiKey, reqs>>
panelVars == <<cvId, isProcessing, calls, invoiceResult>>

(***************************************************************************)
(* Bounds of the model.                                                    *)
(***************************************************************************)
MaxLines == 2       \* lines of an enumerated OCR text
MaxItems == 2       \* elements of an enumerated raw lineItems array
MantDigits == 7     \* significant decimal digits a number keeps
MaxReqs == 2        \* concurrent /analyze-invoice requests
MaxCalls == 3       \* handleProcessInvoice invocations

(***************************************************************************)
(* Characters.                                                             *)
(***************************************************************************)
UpperSeq == <<"A", "B", "C", "D", "E", "F", "G", "H", "I", "J", "K", "L", "M",
              "N", "O", "P", "Q", "R", "S", "T", "U", "V", "W", "X", "Y", "Z">>
LowerSeq == <<"a", "b", "c", "d", "e", "f", "g", "h", "i", "j", "k", "l", "m",
              "n", "o", "p", "q", "r", "s", "t", "u", "v", "w", "x", "y", "z">>
DigitSeq == <<"0", "1", "2", "3", "4", "5", "6", "7", "8", "9">>

Range(s) == {s[i] : i \in DOMAIN s}

\* the regex character classes used by the extractor
Class ==
    LET digits == Range(DigitSeq)
        letters == Range(UpperSeq) \cup Range(LowerSeq)
    IN  [digit   |-> digits,                                \* \d
         space   |-> {" ", "\t", "\n", "\r", "\f"},         \* \s
         word    |-> digits \cup letters \cup {"_"},        \* \w
         token   |-> digits \cup letters \cup {"-"},        \* [A-Za-z0-9-]
         amount  |-> digits \cup {".", ","},                \* [\d.,]
         kept    |-> digits \cup {".", "-"},                \* [0-9.\-]
         datesep |-> {"/", "-"},                            \* [\/\-]
         newline |-> {"\n"},
         break   |-> {"\r", "\n"},                          \* what . does not match
         zero    |-> {"0"}]

InClass(cls, c) == c \in Class[cls]

DigitVal(c) == (CHOOSE i \in DOMAIN DigitSeq : DigitSeq[i] = c) - 1

\* the case folding of the regexes' i flag
Lower(c) ==
    IF c \in Range(UpperSeq)
    THEN LowerSeq[CHOOSE i \in DOMAIN UpperSeq : UpperSeq[i] = c]
    ELSE c

\* a greedy X*: the first index from i on whose character is not in the class
Skip(cls, s, i) ==
    CHOOSE j \in i..(Len(s) + 1) :
        /\ j = Len(s) + 1 \/ ~InClass(cls, s[j])
        /\ \A k \in i..(j - 1) : InClass(cls, s[k])

\* a greedy [^X]*: the first index from i on whose character is in the class
SkipNot(cls, s, i) ==
    CHOOSE j \in i..(Len(s) + 1) :
        /\ j = Len(s) + 1 \/ InClass(cls, s[j])
        /\ \A k \in i..(j - 1) : ~InClass(cls, s[k])

At(cls, s, i) == i >= 1 /\ i <= Len(s) /\ InClass(cls, s[i])

\* a literal (given in lower case) matched case-insensitively at i
MatchesAt(lit, s, i) ==
    /\ i + Len(lit) - 1 <= Len(s)
    /\ \A k \in 1..Len(lit) : Lower(s[i + k - 1]) = lit[k]

Min(S) == CHOOSE x \in S : \A y \in S : x <= y

\* String.prototype.trim
RECURSIVE TrimRight(_)
TrimRight(s) ==
    IF Len(s) > 0 /\ InClass("space", s[Len(s)]) THEN TrimRight(SubSeq(s, 1, Len(s) - 1)) ELSE s
Trim(s) == TrimRight(SubSeq(s, Skip("space", s, 1), Len(s)))

(***************************************************************************)
(* JavaScript numbers.                                                     *)
(***************************************************************************)
Fin(m, e) == [k |-> "fin", m |-> m, e |-> e]
Zero == Fin(0, 0)
Inf(sign) == [k |-> "inf", m |-> sign, e |-> 0]
NaN == [k |-> "nan", m |-> 0, e |-> 0]

Abs(i) == IF i < 0 THEN -i ELSE i
Sign(i) == IF i < 0 THEN -1 ELSE 1

RECURSIVE Pow10(_)
Pow10(n) == IF n = 0 THEN 1 ELSE 10 * Pow10(n - 1)

RECURSIVE NumDigits(_)
NumDigits(m) == IF m < 10 THEN 1 ELSE 1 + NumDigits(m \div 10)

\* rounding to the precision kept (toward zero), then without trailing zeros
RECURSIVE Canon(_, _)
Canon(m, e) ==
    IF NumDigits(m) > MantDigits \/ (m # 0 /\ m % 10 = 0)
    THEN Canon(m \div 10, e + 1)
    ELSE <<m, e>>

\* The double nearest to sign * m * 10^e (m >= 0 of at most 9 digits):
\* above Number.MAX_VALUE = 1.7976931348623157e308 it is Infinity, below
\* half of Number.MIN_VALUE = 4.9e-324 it is 0.
ToDouble(sign, m, e) ==
    IF m = 0 THEN Zero
    ELSE LET p == Canon(m, e)
             top == NumDigits(p[1]) + p[2]
         IN  IF top > 309 \/ (top = 309 /\ p[1] * Pow10(9 - NumDigits(p[1])) > 179769313)
             THEN Inf(sign)
             ELSE IF top <= -324 THEN Zero
             ELSE Fin(sign * p[1], p[2])

IsFinite(x) == x.k = "fin"

\* operands cut so that the product of the mantissas stays below 10^9
RECURSIVE Fit(_, _, _, _)
Fit(m1, e1, m2, e2) ==
    IF NumDigits(m1) + NumDigits(m2) <= 9 THEN <<m1, e1, m2, e2>>
    ELSE IF NumDigits(m1) >= NumDigits(m2)
         THEN Fit(m1 \div 10, e1 + 1, m2, e2)
         ELSE Fit(m1, e1, m2 \div 10, e2 + 1)

\* the * operator on numbers
Mul(a, b) ==
    IF a.k = "nan" \/ b.k = "nan" THEN NaN
    ELSE IF a.k = "inf" \/ b.k = "inf"
         THEN IF a.m = 0 \/ b.m = 0 THEN NaN ELSE Inf(Sign(a.m) * Sign(b.m))
         ELSE LET f == Fit(Abs(a.m), a.e, Abs(b.m), b.e)
              IN  ToDouble(Sign(a.m) * Sign(b.m), f[1] * f[3], f[2] + f[4])

RECURSIVE DigitsToInt(_)
DigitsToInt(ds) ==
    IF Len(ds) = 0 THEN 0
    ELSE 10 * DigitsToInt(SubSeq(ds, 1, Len(ds) - 1)) + DigitVal(ds[Len(ds)])

\* the value of the decimal literal  <int digits> . <frac digits>
DecimalValue(sign, int, frac) ==
    LET all == int \o frac
        sig == SubSeq(all, Skip("zero", all, 1), Len(all))
        kept == IF Len(sig) < MantDigits THEN Len(sig) ELSE MantDigits
    IN  IF Len(sig) = 0 THEN Zero
        ELSE ToDouble(sign, DigitsToInt(SubSeq(sig, 1, kept)),
                      Len(sig) - kept - Len(frac))

\* The longest prefix of s that is a decimal literal: leading blanks, a
\* sign, digits, a dot and digits.  (Exponents and "Infinity" do not occur:
\* the parser hands parseFloat digits, dots and signs only, and the raw
\* strings enumerated for Number() hold none.)
FloatPrefix(s) ==
    LET b     == Skip("space", s, 1)
        i0    == IF b <= Len(s) /\ s[b] \in {"-", "+"} THEN b + 1 ELSE b
        i1    == Skip("digit", s, i0)
        dot   == i1 <= Len(s) /\ s[i1] = "."
        i2    == IF dot THEN Skip("digit", s, i1 + 1) ELSE i1
    IN  [neg  |-> b <= Len(s) /\ s[b] = "-",
         int  |-> SubSeq(s, i0, i1 - 1),
         frac |-> IF dot THEN SubSeq(s, i1 + 1, i2 - 1) ELSE <<>>,
         end  |-> i2]

\* the value of a prefix FloatPrefix found, NaN when it holds no digit
FloatValue(p) ==
    IF Len(p.int) = 0 /\ Len(p.frac) = 0 THEN NaN
    ELSE DecimalValue(IF p.neg THEN -1 ELSE 1, p.int, p.frac)

\* parseFloat: the value of the longest decimal prefix, NaN when there is none
parseFloat(s) == FloatValue(FloatPrefix(s))

(***************************************************************************)
(* JavaScript values.                                                      *)
(***************************************************************************)
\* A value is [t, b, n, s, a, o]: its type and, by type, the boolean, number,
\* string, array elements or object fields; the other components are blank.
NoFields == [key \in {} |-> 0]
JUndef == [t |-> "undefined", b |-> FALSE, n |-> Zero, s |-> <<>>, a |-> <<>>,
           o |-> NoFields]
JNull == [JUndef EXCEPT !.t = "null"]
JBool(b) == [JUndef EXCEPT !.t = "bool", !.b = b]
JNum(x) == [JUndef EXCEPT !.t = "num", !.n = x]
JStr(s) == [JUndef EXCEPT !.t = "str", !.s = s]
JArr(a) == [JUndef EXCEPT !.t = "arr", !.a = a]
JObj(f) == [JUndef EXCEPT !.t = "obj", !.o = f]

Truthy(x) ==
    CASE x.t \in {"null", "undefined"} -> FALSE
      [] x.t = "bool" -> x.b
      [] x.t = "num"  -> ~(x.n.k = "nan" \/ (x.n.k = "fin" /\ x.n.m = 0))
      [] x.t = "str"  -> Len(x.s) > 0
      [] OTHER -> TRUE

\* a || b
Or(a, b) == IF Truthy(a) THEN a ELSE b

(***************************************************************************)
(* Text path: the regexes of parseInvoiceText and buildLineItems.  A match *)
(* is [ok, g]: whether the regex matched, and the captured group.          *)
(***************************************************************************)
L_invoice == <<"i", "n", "v", "o", "i", "c", "e">>
L_number == <<"n", "u", "m", "b", "e", "r">>
L_no == <<"n", "o">>
L_date == <<"d", "a", "t", "e">>
L_subtotal == <<"s", "u", "b", "t", "o", "t", "a", "l">>
L_tax == <<"t", "a", "x">>
L_total == <<"t", "o", "t", "a", "l">>

NoMatch == [ok |-> FALSE, g |-> <<>>]
Match(g) == [ok |-> TRUE, g |-> g]

\* the first digit after the label at p ([^\d]* runs over anything, newlines
\* included), Len(text) + 1 when none follows
FirstDigitAfter(label, text, p) == SkipNot("digit", text, p + Len(label))

\* /<label>[^\d]*(\d+[\d.,]*)/i : the leftmost occurrence of the label that
\* a digit follows somewhere
AmountRegex(label, text) ==
    LET starts == {p \in 1..Len(text) :
                     /\ MatchesAt(label, text, p)
                     /\ FirstDigitAfter(label, text, p) <= Len(text)}
    IN  IF starts = {} THEN NoMatch
        ELSE LET d == FirstDigitAfter(label, text, Min(starts))
             IN  Match(SubSeq(text, d, Skip("amount", text, d) - 1))

\* \d{1,2}[\/\-] at i: the index of the separator, 0 when there is no match
SepAfter(s, i) ==
    IF ~At("digit", s, i) THEN 0
    ELSE IF At("digit", s, i + 1)
         THEN (IF At("datesep", s, i + 2) THEN i + 2 ELSE 0)
         ELSE (IF At("datesep", s, i + 1) THEN i + 1 ELSE 0)

\* \d{1,2}[\/\-]\d{1,2}[\/\-]\d{2,4} at d: the index after the match, 0 when none
DateEnd(s, d) ==
    LET a == SepAfter(s, d)
        b == IF a = 0 THEN 0 ELSE SepAfter(s, a + 1)
        r == IF b = 0 THEN 0 ELSE Skip("digit", s, b + 1) - (b + 1)
    IN  IF r < 2 THEN 0 ELSE b + 1 + (IF r > 4 THEN 4 ELSE r)

\* date[^\d]*(\d{1,2}[\/\-]\d{1,2}[\/\-]\d{2,4}) with "date" at q: the
\* group captured, no match when the first digit after the label starts no
\* date ([^\d]* stops at that digit and cannot give any back)
DateAfterLabel(text, q) ==
    LET d == FirstDigitAfter(L_date, text, q)
    IN  IF MatchesAt(L_date, text, q) /\ DateEnd(text, d) # 0
        THEN Match(SubSeq(text, d, DateEnd(text, d) - 1))
        ELSE NoMatch

\* /date[^\d]*(\d{1,2}[\/\-]\d{1,2}[\/\-]\d{2,4})/i
DateRegex(text) ==
    LET starts == {p \in 1..Len(text) : DateAfterLabel(text, p).ok}
    IN  IF starts = {} THEN NoMatch ELSE DateAfterLabel(text, Min(starts))

\* invoice\s* at p: the index where the next part of the regex has to start
AfterInvoice(text, p) == Skip("space", text, p + Len(L_invoice))

\* /invoice\s*date[^\d]*(\d{1,2}[\/\-]\d{1,2}[\/\-]\d{2,4})/i
InvoiceDateRegex(text) ==
    LET starts == {p \in 1..Len(text) :
                     /\ MatchesAt(L_invoice, text, p)
                     /\ DateAfterLabel(text, AfterInvoice(text, p)).ok}
    IN  IF starts = {} THEN NoMatch
        ELSE DateAfterLabel(text, AfterInvoice(text, Min(starts)))

\* [^\w]?\s*([A-Za-z0-9-]+) at r: the index where the token starts, 0 when
\* none; the optional character is tried taken first, then not taken.
TokenStart(s, r) ==
    LET t1 == Skip("space", s, r + 1)
        t2 == Skip("space", s, r)
    IN  IF r <= Len(s) /\ ~InClass("word", s[r]) /\ At("token", s, t1) THEN t1
        ELSE IF At("token", s, t2) THEN t2
        ELSE 0

\* (number|no\.?) at q, then the token: the alternatives in the order the
\* regex engine tries them
NumberLabelToken(s, q) ==
    LET viaNumber == IF MatchesAt(L_number, s, q) THEN TokenStart(s, q + 6) ELSE 0
        viaNoDot  == IF MatchesAt(L_no, s, q) /\ q + 2 <= Len(s) /\ s[q + 2] = "."
                     THEN TokenStart(s, q + 3) ELSE 0
        viaNo     == IF MatchesAt(L_no, s, q) THEN TokenStart(s, q + 2) ELSE 0
    IN  IF viaNumber # 0 THEN viaNumber
        ELSE IF viaNoDot # 0 THEN viaNoDot
        ELSE viaNo

\* /invoice\s*(number|no\.?)[^\w]?\s*([A-Za-z0-9-]+)/i, group 2
InvoiceNumberRegex(text) ==
    LET tok(p) == NumberLabelToken(text, AfterInvoice(text, p))
        starts == {p \in 1..Len(text) :
                     MatchesAt(L_invoice, text, p) /\ tok(p) # 0}
    IN  IF starts = {} THEN NoMatch
        ELSE LET t == tok(Min(starts))
             IN  Match(SubSeq(text, t, Skip("token", text, t) - 1))

\* extractFirstMatch, given the result of text.match(regex)
extractFirstMatch(match) ==
    IF match.ok /\ Len(match.g) > 0 THEN JStr(Trim(match.g)) ELSE JNull

\* value.replace(/[^0-9.\-]/g, "")
KeepAmountChars(s) == SelectSeq(s, LAMBDA c : InClass("kept", c))

parseCurrency(value) ==
    IF ~Truthy(value) THEN JNull
    ELSE LET parsed == parseFloat(KeepAmountChars(value.s))
         IN  IF IsFinite(parsed) THEN JNum(parsed) ELSE JNull

\* String.prototype.split on the characters of a class; j is the next separator
RECURSIVE SplitAt(_, _, _, _)
SplitAt(sep, s, i, j) ==
    IF j > Len(s) THEN <<SubSeq(s, i, Len(s))>>
    ELSE <<SubSeq(s, i, j - 1)>> \o SplitAt(sep, s, j + 1, SkipNot(sep, s, j + 1))
Split(sep, s) == SplitAt(sep, s, 1, SkipNot(sep, s, 1))

\* part.padStart(2, "0")
PadStart2(p) ==
    IF Len(p) >= 2 THEN p ELSE IF Len(p) = 1 THEN <<"0">> \o p ELSE <<"0", "0">>

normalizeDate(raw) ==
    IF ~Truthy(raw) THEN JNull
    ELSE LET split == Split("datesep", raw.s)
             parts == [i \in 1..Len(split) |-> PadStart2(split[i])]
         IN  IF Len(parts) = 3
             THEN LET month == parts[1]
                      day   == parts[2]
                      year  == IF Len(parts[3]) = 2 THEN <<"2", "0">> \o parts[3]
                                                    ELSE parts[3]
                  IN  JStr(year \o <<"-">> \o month \o <<"-">> \o day)
             ELSE raw

\* typeof value === "number" && Number.isFinite(value)
isFiniteNumber(value) == value.t = "num" /\ IsFinite(value.n)

\* \d+(?:\.\d+)? at i: the index after the number, 0 when none
NumberEnd(s, i) ==
    IF ~At("digit", s, i) THEN 0
    ELSE LET a == Skip("digit", s, i)
         IN  IF a <= Len(s) /\ s[a] = "." /\ At("digit", s, a + 1)
             THEN Skip("digit", s, a + 1)
             ELSE a

\* \s+x\s+(\d+(?:\.\d+)?) at qe, where the quantity ends: <<qe, start of unit
\* price, end of unit price>>, or <<>> when there is no match
TimesPrice(s, qe, x) ==
    LET u == Skip("space", s, x + 1)
    IN  IF x > qe /\ x <= Len(s) /\ Lower(s[x]) = "x" /\ u > x + 1 /\ NumberEnd(s, u) # 0
        THEN <<qe, u, NumberEnd(s, u)>>
        ELSE <<>>

\* (\d+(?:\.\d+)?)\s+x\s+(\d+(?:\.\d+)?) at g: <<end of quantity, start of
\* unit price, end of unit price>>, or <<>> when there is no match
QtyTimesPrice(s, g) ==
    LET qe == NumberEnd(s, g)
    IN  IF qe = 0 THEN <<>> ELSE TimesPrice(s, qe, Skip("space", s, qe))

\* (?:\s{2,}|\t) at k, then the rest: the index where the quantity starts,
\* 0 when neither alternative leads to a match.  \s{2,} giving blanks back
\* cannot help, for the quantity starts with a digit.
GapThenRest(s, k) ==
    LET r == Skip("space", s, k)
    IN  IF r - k >= 2 /\ QtyTimesPrice(s, r) # <<>> THEN r
        ELSE IF k <= Len(s) /\ s[k] = "\t" /\ QtyTimesPrice(s, k + 1) # <<>> THEN k + 1
        ELSE 0

\* the last line terminator before k ("." does not match it), 0 when none
LastBreakBefore(s, k) ==
    IF \E i \in 1..(k - 1) : InClass("break", s[i])
    THEN CHOOSE i \in 1..(k - 1) :
            InClass("break", s[i]) /\ \A j \in (i + 1)..(k - 1) : ~InClass("break", s[j])
    ELSE 0

NoLineMatch == [ok |-> FALSE, g1 |-> <<>>, g2 |-> <<>>, g3 |-> <<>>]

\* the groups of the match whose gap is at k, quantity at g, and m as QtyTimesPrice
LineGroups(line, k, g, m) ==
    [ok |-> TRUE,
     g1 |-> SubSeq(line, LastBreakBefore(line, k) + 1, k - 1),
     g2 |-> SubSeq(line, g, m[1] - 1),
     g3 |-> SubSeq(line, m[2], m[3] - 1)]

\* the match whose gap is the first of ks
LineAmong(line, ks, g) ==
    IF ks = {} THEN NoLineMatch ELSE LineGroups(line, Min(ks), g, QtyTimesPrice(line, g))

\* line.match(lineRegex): [ok, description, quantity, unitPrice].  The lazy
\* (.*?) ends at the first gap from which the rest matches, and the match
\* starts after the last line terminator before that gap.
LineRegex(line) ==
    LET ks == {k \in 1..Len(line) : GapThenRest(line, k) # 0}
    IN  LineAmong(line, ks, GapThenRest(line, Min(ks)))

LineItem(description, quantity, unitPrice, lineTotal) ==
    JObj([description |-> JStr(description), quantity |-> JNum(quantity),
          unitPrice |-> JNum(unitPrice), lineTotal |-> JNum(lineTotal)])

Placeholder == <<"S", "e", "e", " ", "O", "C", "R", " ", "o", "u", "t", "p", "u",
                 "t", " ", "f", "o", "r", " ", "d", "e", "t", "a", "i", "l", "e",
                 "d", " ", "l", "i", "n", "e", " ", "i", "t", "e", "m", "s">>

\* the body of lines.forEach: the item a matching line pushes
MatchedItem(m) ==
    LET quantity  == parseFloat(m.g2)
        unitPrice == parseFloat(m.g3)
    IN  LineItem(Trim(m.g1), quantity, unitPrice, Mul(quantity, unitPrice))

\* the items pushed by lines.forEach
PushedItems(lines) ==
    LET hits == SelectSeq([i \in 1..Len(lines) |-> LineRegex(lines[i])],
                          LAMBDA m : m.ok)
    IN  [i \in 1..Len(hits) |-> MatchedItem(hits[i])]

\* buildLineItems without the push into an empty items
ItemsAsPushed(items, fallbackTotal) == items

\* if (!items.length) items.push({... isFiniteNumber(fallbackTotal) ? fallbackTotal : 0 ...})
ItemsOrPlaceholder(items, fallbackTotal) ==
    LET amount == IF isFiniteNumber(fallbackTotal) THEN fallbackTotal.n ELSE Zero
    IN  IF Len(items) = 0
        THEN <<LineItem(Placeholder, Fin(1, 0), amount, amount)>>
        ELSE items

buildLineItems(lines, fallbackTotal) ==
    ItemsOrPlaceholder(PushedItems(lines), fallbackTotal)

\* fullText.replace(/\r\n/g, "\n")
ReplaceCRLF(s) ==
    LET marked == [i \in 1..Len(s) |->
                     [c |-> s[i],
                      drop |-> s[i] = "\r" /\ i < Len(s) /\ s[i + 1] = "\n"]]
        kept == SelectSeq(marked, LAMBDA x : ~x.drop)
    IN  [i \in 1..Len(kept) |-> kept[i].c]

\* normalizedText.split("\n").map(trim).filter(Boolean)
TrimmedLines(text) ==
    LET split == Split("newline", text)
    IN  SelectSeq([i \in 1..Len(split) |-> Trim(split[i])], LAMBDA l : Len(l) > 0)

Record(vendor, invoiceNumber, invoiceDate, subtotal, tax, total, lineItems) ==
    JObj([vendor |-> vendor, invoiceNumber |-> invoiceNumber,
          invoiceDate |-> invoiceDate, subtotal |-> subtotal, tax |-> tax,
          total |-> total, lineItems |-> JArr(lineItems)])

\* the argument buildLineItems gets as fallbackTotal
FallbackArg(subtotal, total) == subtotal

\* isFiniteNumber(value) ? value : 0
FiniteOrZero(value) == IF isFiniteNumber(value) THEN value ELSE JNum(Zero)

\* invoiceNumber as extractFirstMatch returned it
InvoiceNumberAsExtracted(invoiceNumber) == invoiceNumber

\* invoiceNumber: invoiceNumber || ""
InvoiceNumberOrEmpty(invoiceNumber) == Or(invoiceNumber, JStr(<<>>))

\* the return statement of parseInvoiceText
ParsedRecord(lines, invoiceNumber, invoiceDate, subtotal, tax, total) ==
    Record(IF Len(lines) > 0 THEN JStr(lines[1]) ELSE JStr(<<>>),
           InvoiceNumberOrEmpty(invoiceNumber),
           invoiceDate,
           FiniteOrZero(subtotal), FiniteOrZero(tax), FiniteOrZero(total),
           buildLineItems(lines, FallbackArg(subtotal, total)))

ParsedAmount(label, text) == parseCurrency(extractFirstMatch(AmountRegex(label, text)))

ParsedText(normalizedText) ==
    ParsedRecord(TrimmedLines(normalizedText),
                 extractFirstMatch(InvoiceNumberRegex(normalizedText)),
                 normalizeDate(Or(extractFirstMatch(InvoiceDateRegex(normalizedText)),
                                  extractFirstMatch(DateRegex(normalizedText)))),
                 ParsedAmount(L_subtotal, normalizedText),
                 ParsedAmount(L_tax, normalizedText),
                 ParsedAmount(L_total, normalizedText))

parseInvoiceText(fullText) == ParsedText(ReplaceCRLF(fullText))

(***************************************************************************)
(* JSON path: normalizeInvoiceJson.                                        *)
(***************************************************************************)
\* raw?.key
Get(raw, key) ==
    IF raw.t = "obj" /\ key \in DOMAIN raw.o THEN raw.o[key] ELSE JUndef

\* Number(string): blank is 0, a whole decimal literal its value, else NaN
StringToNumber(s) ==
    LET t == Trim(s)
    IN  IF Len(t) = 0 THEN Zero
        ELSE IF FloatPrefix(t).end = Len(t) + 1 THEN parseFloat(t)
        ELSE NaN

\* Number(value)
RECURSIVE ToNumber(_)
ToNumber(x) ==
    CASE x.t = "undefined" -> NaN
      [] x.t = "null" -> Zero
      [] x.t = "bool" -> IF x.b THEN Fin(1, 0) ELSE Zero
      [] x.t = "num"  -> x.n
      [] x.t = "str"  -> StringToNumber(x.s)
      [] x.t = "obj"  -> NaN
      [] x.t = "arr"  ->
            \* through String(array): "" when empty, the element's string when single
            IF Len(x.a) = 0 THEN Zero
            ELSE IF Len(x.a) > 1 THEN NaN
            ELSE IF x.a[1].t \in {"null", "undefined"} THEN Zero
            ELSE IF x.a[1].t \in {"num", "str", "arr"} THEN ToNumber(x.a[1])
            ELSE NaN

\* const safeNumber = (value) => (Number.isFinite(value) ? value : 0)
safeNumber(value) == IF IsFinite(value) THEN JNum(value) ELSE JNum(Zero)

\* const safeString = (value) => (typeof value === "string" ? value : "")
safeString(value) == IF value.t = "str" THEN value ELSE JStr(<<>>)

\* /^\d{4}-\d{2}-\d{2}$/
IsoMatch(s) ==
    /\ Len(s) = 10
    /\ \A i \in {1, 2, 3, 4, 6, 7, 9, 10} : InClass("digit", s[i])
    /\ s[5] = "-" /\ s[8] = "-"

safeDate(value) ==
    IF value.t # "str" \/ Len(Trim(value.s)) = 0 THEN JNull
    ELSE IF IsoMatch(Trim(value.s)) THEN JStr(Trim(value.s)) ELSE JNull

RECURSIVE IntToStr(_)
IntToStr(n) ==
    IF n < 10 THEN <<DigitSeq[n + 1]>> ELSE IntToStr(n \div 10) \o <<DigitSeq[(n % 10) + 1]>>

LineItemPrefix == <<"L", "i", "n", "e", " ", "I", "t", "e", "m", " ">>
SeeOcrDetails == <<"S", "e", "e", " ", "O", "C", "R", " ", "d", "e", "t", "a", "i", "l", "s">>

\* the map callback with the description always the "Line Item n" label
RelabelledItem(item, index) ==
    JObj([description |-> JStr(LineItemPrefix \o IntToStr(index + 1)),
          quantity  |-> safeNumber(ToNumber(Get(item, "quantity"))),
          unitPrice |-> safeNumber(ToNumber(Get(item, "unitPrice"))),
          lineTotal |-> safeNumber(ToNumber(Get(item, "lineTotal")))])

\* the callback of lineItemsArray.map; index is the 0-based array index
NormalizedItem(item, index) ==
    JObj([description |-> Or(safeString(Get(item, "description")),
                             JStr(LineItemPrefix \o IntToStr(index + 1))),
          quantity  |-> safeNumber(ToNumber(Get(item, "quantity"))),
          unitPrice |-> safeNumber(ToNumber(Get(item, "unitPrice"))),
          lineTotal |-> safeNumber(ToNumber(Get(item, "lineTotal")))])

\* Array.isArray(raw?.lineItems) ? raw.lineItems : []
LineItemsArray(raw) ==
    IF Get(raw, "lineItems").t = "arr" THEN Get(raw, "lineItems").a ELSE <<>>

SyntheticItem(total) ==
    JObj([description |-> JStr(SeeOcrDetails), quantity |-> JNum(Fin(1, 0)),
          unitPrice |-> total, lineTotal |-> total])

\* lineItemsArray.map(...), then the push of the "See OCR details" item
NormalizedLineItems(lineItemsArray, total) ==
    IF Len(lineItemsArray) # 0
    THEN [i \in 1..Len(lineItemsArray) |-> NormalizedItem(lineItemsArray[i], i - 1)]
    ELSE <<SyntheticItem(total)>>

\* the value normalizeInvoiceJson returns as invoiceNumber
NormalizedInvoiceNumber(raw) == safeString(Get(raw, "invoiceNumber"))

NormalizedRecord(raw, total) ==
    Record(safeString(Get(raw, "vendor")),
           NormalizedInvoiceNumber(raw),
           safeDate(Get(raw, "invoiceDate")),
           safeNumber(ToNumber(Get(raw, "subtotal"))),
           safeNumber(ToNumber(Get(raw, "tax"))),
           total,
           NormalizedLineItems(LineItemsArray(raw), total))

normalizeInvoiceJson(raw) == NormalizedRecord(raw, safeNumber(ToNumber(Get(raw, "total"))))

(***************************************************************************)
(* Inputs: OCR texts for parseInvoiceText, raw values for                  *)
(* normalizeInvoiceJson.                                                   *)
(***************************************************************************)
Zeros(n) == [i \in 1..n |-> "0"]

AcmeLine == <<"A", "c", "m", "e">>
ShortYearLine == <<"D", "a", "t", "e", ":", " ", "3", "/", "4", "/", "2", "0", "2">>
SubtotalLine == <<"S", "u", "b", "t", "o", "t", "a", "l", " ", "2", "0", ".", "0", "0">>
TotalLine == <<"T", "o", "t", "a", "l", " ", "2", "1", ".", "6", "0">>
\* two finite factors whose product overflows: 1e200 x 1e200
BigItemLine ==
    <<"B", "\t", "1">> \o Zeros(200) \o <<" ", "x", " ", "1">> \o Zeros(200)

TextLines ==
    {AcmeLine, ShortYearLine, SubtotalLine, TotalLine, BigItemLine,
     \* Invoice No. A-1
     <<"I", "n", "v", "o", "i", "c", "e", " ", "N", "o", ".", " ", "A", "-", "1">>,
     \* Invoice Date: 3/4/24
     <<"I", "n", "v", "o", "i", "c", "e", " ", "D", "a", "t", "e", ":", " ",
       "3", "/", "4", "/", "2", "4">>,
     \* Date 03-04-2024
     <<"D", "a", "t", "e", " ", "0", "3", "-", "0", "4", "-", "2", "0", "2", "4">>,
     \* W  2 x 1.5
     <<"W", " ", " ", "2", " ", "x", " ", "1", ".", "5">>,
     \* Tax 1.60
     <<"T", "a", "x", " ", "1", ".", "6", "0">>,
     \* Total $1,234.56
     <<"T", "o", "t", "a", "l", " ", "$", "1", ",", "2", "3", "4", ".", "5", "6">>,
     \* a quantity beyond Number.MAX_VALUE times 0: 1e309 x 0
     <<"H", " ", " ", "1">> \o Zeros(309) \o <<" ", "x", " ", "0">>}

\* the end-to-end scenario's OCR text
EndToEndText ==
    <<"A", "c", "m", "e", " ", "S", "u", "p", "p", "l", "i", "e", "s", "\n",
      "I", "n", "v", "o", "i", "c", "e", " ", "N", "u", "m", "b", "e", "r",
      ":", " ", "I", "N", "V", "-", "1", "0", "0", "2", "\n", "I", "n", "v",
      "o", "i", "c", "e", " ", "D", "a", "t", "e", ":", " ", "0", "3", "/",
      "0", "4", "/", "2", "0", "2", "4", "\n", "W", "i", "d", "g", "e", "t",
      " ", "A", " ", " ", " ", " ", "2", " ", "x", " ", "1", "0", ".", "0",
      "0", "\n", "S", "u", "b", "t", "o", "t", "a", "l", " ", "2", "0", ".",
      "0", "0", "\n", "T", "a", "x", " ", "1", ".", "6", "0", "\n", "T", "o",
      "t", "a", "l", " ", "2", "1", ".", "6", "0">>

RECURSIVE Join(_, _)
Join(lines, sep) ==
    IF Len(lines) = 0 THEN <<>>
    ELSE IF Len(lines) = 1 THEN lines[1]
    ELSE lines[1] \o sep \o Join(Tail(lines), sep)

Texts ==
    {Join(ls, sep) : ls \in UNION {[1..n -> TextLines] : n \in 0..MaxLines},
                     sep \in {<<"\n">>, <<"\r", "\n">>}}
    \cup {EndToEndText}

InvNoStr == <<"A", "-", "1">>
IsoDateStr == <<"2", "0", "2", "4", "-", "0", "3", "-", "0", "4">>
AmountStr == <<"2", "0", ".", "0", "0">>
WordStr == <<"a", "b", "c">>
WidgetStr == <<"W", "i", "d", "g", "e", "t", " ", "A">>

\* an object holding the fields of c that are not undefined
MakeObj(c) == JObj([key \in {x \in DOMAIN c : c[x] # JUndef} |-> c[key]])

CanonicalItem ==
    JObj([description |-> JStr(WidgetStr), quantity |-> JNum(Fin(2, 0)),
          unitPrice |-> JNum(Fin(1, 1)), lineTotal |-> JNum(Fin(2, 1))])
\* blank description, a numeric string, a number JSON.parse read as Infinity
\* (1e999), and no lineTotal
MessyItem ==
    JObj([description |-> JStr(<<>>), quantity |-> JStr(AmountStr),
          unitPrice |-> JNum(Inf(1))])
RawItems == {CanonicalItem, MessyItem, JNull}

RawLineItems ==
    {JUndef, JStr(WordStr)}
    \cup {JArr(a) : a \in UNION {[1..n -> RawItems] : n \in 0..MaxItems}}

RawObjects ==
    {MakeObj(c) : c \in
        [vendor        : {JNull, JStr(AcmeLine)},
         invoiceNumber : {JUndef, JNull, JStr(InvNoStr)},
         \* null, "2024-03-04", " 2024-03-04 ", "03/04/2024"
         invoiceDate   : {JNull, JStr(IsoDateStr), JStr(<<" ">> \o IsoDateStr \o <<" ">>),
                          JStr(<<"0", "3", "/", "0", "4", "/", "2", "0", "2", "4">>)},
         subtotal      : {JNum(Fin(2, 1)), JStr(AmountStr)},
         tax           : {JUndef, JNum(Fin(16, -1))},
         total         : {JUndef, JNull, JNum(Fin(216, -1)), JNum(Inf(1)), JStr(WordStr)},
         lineItems     : RawLineItems]}

\* what JSON.parse can return that is not an object: null, a number, a
\* string, a boolean, an array
RawNonObjects == {JNull, JNum(Fin(42, 0)), JStr(WordStr), JBool(TRUE), JArr(<<>>)}

RawValues == RawObjects \cup RawNonObjects

(***************************************************************************)
(* The two parsing functions as a state machine: a caller picks an input,  *)
(* the function runs, and the record normalizeInvoiceJson returned may be  *)
(* handed to it again.                                                     *)
(***************************************************************************)
CoreIdle ==
    phase = "idle" /\ fn = "none" /\ arg = JUndef /\ ret = JUndef /\ fed = FALSE
ServiceIdle == apiKey = TRUE /\ reqs = <<>>
PanelIdle == cvId = 0 /\ isProcessing = FALSE /\ calls = <<>> /\ invoiceResult = 0

Init ==
    /\ CoreIdle
    /\ ServiceIdle
    /\ PanelIdle

CallParseInvoiceText ==
    /\ phase = "idle"
    /\ \E text \in Texts : arg' = JStr(text)
    /\ fn' = "parseInvoiceText"
    /\ phase' = "called"
    /\ UNCHANGED <<ret, fed, serviceVars, panelVars>>

ParseInvoiceText ==
    /\ phase = "called" /\ fn = "parseInvoiceText"
    /\ ret' = parseInvoiceText(arg.s)
    /\ phase' = "returned"
    /\ UNCHANGED <<fn, arg, fed, serviceVars, panelVars>>

CallNormalizeInvoiceJson ==
    /\ phase = "idle"
    /\ \E raw \in RawValues : arg' = raw
    /\ fn' = "normalizeInvoiceJson"
    /\ phase' = "called"
    /\ UNCHANGED <<ret, fed, serviceVars, panelVars>>

NormalizeInvoiceJson ==
    /\ phase = "called" /\ fn = "normalizeInvoiceJson"
    /\ ret' = normalizeInvoiceJson(arg)
    /\ phase' = "returned"
    /\ UNCHANGED <<fn, arg, fed, serviceVars, panelVars>>

\* the record normalizeInvoiceJson returned is normalized again
Renormalize ==
    /\ phase = "returned" /\ fn = "normalizeInvoiceJson" /\ ~fed
    /\ arg' = ret
    /\ fed' = TRUE
    /\ phase' = "called"
    /\ UNCHANGED <<fn, ret, serviceVars, panelVars>>

Next ==
    \/ CallParseInvoiceText
    \/ ParseInvoiceText
    \/ CallNormalizeInvoiceJson
    \/ NormalizeInvoiceJson
    \/ Renormalize

Spec == Init /\ [][Next]_vars

(***************************************************************************)
(* The /analyze-invoice handler of the LLM variant.  A request is          *)
(* [body, pc, ocr, llm, norm, content, responses]: what req.body holds as   *)
(* fileContentBase64, where the handler is suspended, how far each of the  *)
(* three steps got ("no", "started", "ok", "failed"; norm is "no" or       *)
(* "done"), the LLM message content once read, and the responses sent.     *)
(***************************************************************************)
NumberStr == <<"4", "2">>

\* JSON.parse on the strings an LLM message content holds here: [text, ok,
\* value]; ok is FALSE when it throws a SyntaxError
JsonTexts ==
    {[text |-> <<"o", "o", "p", "s">>, ok |-> FALSE, value |-> JUndef],
     [text |-> NumberStr, ok |-> TRUE, value |-> JNum(Fin(42, 0))],
     [text |-> <<"[", "]">>, ok |-> TRUE, value |-> JArr(<<>>)],
     [text |-> <<"n", "u", "l", "l">>, ok |-> TRUE, value |-> JNull],
     [text |-> <<"{", "}">>, ok |-> TRUE, value |-> JObj(NoFields)],
     \* {"total":5}
     [text |-> <<"{", "\"", "t", "o", "t", "a", "l", "\"", ":", "5", "}">>,
      ok |-> TRUE, value |-> JObj([total |-> JNum(Fin(5, 0))])]}

\* what data?.choices?.[0]?.message?.content can be: missing, "", one of
\* the strings above, or no string at all (a number, an object)
Contents ==
    {JUndef, JStr(<<>>), JNum(Fin(42, 0)), JObj(NoFields)}
    \cup {JStr(p.text) : p \in JsonTexts}

\* JSON.parse(content): [ok, value].  A content that is no string is parsed
\* through its string form ("42", "[object Object]").
JsonParse(content) ==
    CASE content.t = "str" ->
            LET p == CHOOSE q \in JsonTexts : q.text = content.s
            IN  [ok |-> p.ok, value |-> p.value]
      [] content.t = "num" -> [ok |-> TRUE, value |-> content]
      [] OTHER -> [ok |-> FALSE, value |-> JUndef]

NewRequest(body) ==
    [body |-> body, pc |-> "start", ocr |-> "no", llm |-> "no", norm |-> "no",
     content |-> JUndef, responses |-> <<>>]

Response(status, error, details, body) ==
    [status |-> status, error |-> error, details |-> details, body |-> body]

\* res.status(status).json(...) and the handler returns
Respond(r, resp) == [r EXCEPT !.pc = "done", !.responses = Append(@, resp)]

\* the handler's catch block, for an error with the given publicMessage
\* ("" when it has none) and details
CatchError(r, publicMessage, details) ==
    Respond(r, Response(500,
                        IF publicMessage # "" THEN publicMessage
                                              ELSE "Failed to analyze invoice",
                        details, JUndef))

\* the handler without its check of fileContentBase64: Buffer.from(undefined)
\* throws a TypeError
StartWithoutCheck(r) ==
    IF r.body \in {"missing", "number"}
    THEN CatchError(r, "", "TypeError")
    ELSE [r EXCEPT !.pc = "awaitVision", !.ocr = "started"]

\* the handler from its entry to its first suspension
StartHandler(r) ==
    CASE r.body = "missing" ->
            Respond(r, Response(400, "fileContentBase64 is required", "", JUndef))
      [] r.body = "number" ->
            \* Buffer.from(<number>, "base64") throws a TypeError
            CatchError(r, "", "TypeError")
      [] OTHER ->
            [r EXCEPT !.pc = "awaitVision", !.ocr = "started"]

\* callOpenAiParser from its entry to its first suspension
StartLlm(r) ==
    IF ~apiKey
    THEN CatchError([r EXCEPT !.llm = "failed"], "LLM parsing error",
                    "OPENAI_API_KEY is not configured")
    ELSE [r EXCEPT !.pc = "awaitFetch", !.llm = "started"]

\* callOpenAiParser from the message content on, then normalizeInvoiceJson
\* and the 200 response
FinishLlm(r, content) ==
    LET withContent == [r EXCEPT !.content = content]
        parsed == JsonParse(content)
    IN  IF ~Truthy(content)
        THEN CatchError([withContent EXCEPT !.llm = "failed"], "LLM parsing error",
                        "Empty LLM response")
        ELSE IF ~parsed.ok
        THEN CatchError([withContent EXCEPT !.llm = "failed"], "Invalid LLM JSON",
                        "SyntaxError")
        ELSE Respond([withContent EXCEPT !.llm = "ok", !.norm = "done"],
                     Response(200, "", "", normalizeInvoiceJson(parsed.value)))

InitService ==
    /\ CoreIdle
    /\ PanelIdle
    /\ apiKey \in BOOLEAN
    /\ reqs = <<>>

\* a POST /analyze-invoice arrives
Receive ==
    /\ Len(reqs) < MaxReqs
    /\ \E body \in {"missing", "number", "string"} :
          reqs' = Append(reqs, StartHandler(NewRequest(body)))
    /\ UNCHANGED <<coreVars, apiKey, panelVars>>

\* visionClient.documentTextDetection resolves
VisionResolves ==
    /\ \E i \in DOMAIN reqs :
          /\ reqs[i].pc = "awaitVision"
          /\ reqs' = [reqs EXCEPT ![i] = StartLlm([@ EXCEPT !.ocr = "ok"])]
    /\ UNCHANGED <<coreVars, apiKey, panelVars>>

\* visionClient.documentTextDetection rejects
VisionRejects ==
    /\ \E i \in DOMAIN reqs :
          /\ reqs[i].pc = "awaitVision"
          /\ reqs' = [reqs EXCEPT ![i] =
                        CatchError([@ EXCEPT !.ocr = "failed"], "Vision OCR error",
                                   "vision message")]
    /\ UNCHANGED <<coreVars, apiKey, panelVars>>

\* fetch resolves with a response whose ok flag is given
FetchResolves ==
    /\ \E i \in DOMAIN reqs, ok \in BOOLEAN :
          /\ reqs[i].pc = "awaitFetch"
          /\ reqs' = [reqs EXCEPT ![i].pc = IF ok THEN "awaitJson" ELSE "awaitErrorText"]
    /\ UNCHANGED <<coreVars, apiKey, panelVars>>

\* fetch rejects: the outer catch wraps the error
FetchRejects ==
    /\ \E i \in DOMAIN reqs :
          /\ reqs[i].pc = "awaitFetch"
          /\ reqs' = [reqs EXCEPT ![i] =
                        CatchError([@ EXCEPT !.llm = "failed"], "LLM parsing error",
                                   "fetch message")]
    /\ UNCHANGED <<coreVars, apiKey, panelVars>>

\* response.text() of a non-ok response settles, either way
ErrorTextSettles ==
    /\ \E i \in DOMAIN reqs, resolved \in BOOLEAN :
          /\ reqs[i].pc = "awaitErrorText"
          /\ reqs' = [reqs EXCEPT ![i] =
                        CatchError([@ EXCEPT !.llm = "failed"], "LLM parsing error",
                                   IF resolved THEN "response text" ELSE "text message")]
    /\ UNCHANGED <<coreVars, apiKey, panelVars>>

\* response.json() resolves with a body whose message content is given
JsonResolves ==
    /\ \E i \in DOMAIN reqs, content \in Contents :
          /\ reqs[i].pc = "awaitJson"
          /\ reqs' = [reqs EXCEPT ![i] = FinishLlm(@, content)]
    /\ UNCHANGED <<coreVars, apiKey, panelVars>>

\* response.json() rejects
JsonRejects ==
    /\ \E i \in DOMAIN reqs :
          /\ reqs[i].pc = "awaitJson"
          /\ reqs' = [reqs EXCEPT ![i] =
                        CatchError([@ EXCEPT !.llm = "failed"], "LLM parsing error",
                                   "json message")]
    /\ UNCHANGED <<coreVars, apiKey, panelVars>>

NextService ==
    \/ Receive
    \/ VisionResolves
    \/ VisionRejects
    \/ FetchResolves
    \/ FetchRejects
    \/ ErrorTextSettles
    \/ JsonResolves
    \/ JsonRejects

SpecService == InitService /\ [][NextService]_vars

(***************************************************************************)
(* InvoiceUploadPanel.  calls holds one entry per handleProcessInvoice     *)
(* invocation that called startOcr: "pending", "resolved" or "rejected".   *)
(***************************************************************************)
InitPanel ==
    /\ CoreIdle
    /\ ServiceIdle
    /\ PanelIdle

\* get disableProcessButton()
disableProcessButton == cvId = 0 \/ isProcessing

\* handleUploadFinished(event): files is the documentId of the first
\* uploaded file, 0 when event.detail.files is empty or missing
handleUploadFinished ==
    /\ \E files \in 0..2 :
          cvId' = IF files # 0 THEN files ELSE cvId
    /\ UNCHANGED <<coreVars, serviceVars, isProcessing, calls, invoiceResult>>

\* handleProcessInvoice() up to its await of startOcr
handleProcessInvoice ==
    /\ Len(calls) < MaxCalls
    /\ IF cvId = 0
       THEN UNCHANGED <<isProcessing, calls>>
       ELSE /\ isProcessing' = TRUE
            /\ calls' = Append(calls, "pending")
    /\ UNCHANGED <<coreVars, serviceVars, cvId, invoiceResult>>

\* startOcr resolves: the try block's rest, then finally
StartOcrResolves ==
    /\ \E i \in DOMAIN calls :
          /\ calls[i] = "pending"
          /\ calls' = [calls EXCEPT ![i] = "resolved"]
          /\ invoiceResult' = i
    /\ isProcessing' = FALSE
    /\ UNCHANGED <<coreVars, serviceVars, cvId>>

\* startOcr rejects: the catch block, then finally
StartOcrRejects ==
    /\ \E i \in DOMAIN calls :
          /\ calls[i] = "pending"
          /\ calls' = [calls EXCEPT ![i] = "rejected"]
    /\ isProcessing' = FALSE
    /\ UNCHANGED <<coreVars, serviceVars, cvId, invoiceResult>>

NextPanel ==
    \/ handleUploadFinished
    \/ handleProcessInvoice
    \/ StartOcrResolves
    \/ StartOcrRejects

SpecPanel == InitPanel /\ [][NextPanel]_vars

(***************************************************************************)
(* Properties.                                                             *)
(***************************************************************************)
Returned == phase = "returned"
TextReturned == Returned /\ fn = "parseInvoiceText"
JsonReturned == Returned /\ fn = "normalizeInvoiceJson"

ReturnedItems == ret.o.lineItems.a
IsNumber(v, n) == v = JNum(n)

\* C1: whatever the input of either function, the record returned has a
\* lineItems array of at least one element.
C1_LineItemsNonEmpty ==
    Returned => ret.o.lineItems.t = "arr" /\ Len(ReturnedItems) >= 1

\* the empty OCR text was parsed and the record holds the one placeholder item
C1_EmptyTextGetsPlaceholder ==
    /\ TextReturned
    /\ arg.s = <<>>
    /\ Len(ReturnedItems) = 1
    /\ ReturnedItems[1].o.description = JStr(Placeholder)

FiniteField(v) == v.t = "num" /\ IsFinite(v.n)
FiniteItem(item) ==
    /\ FiniteField(item.o.quantity)
    /\ FiniteField(item.o.unitPrice)
    /\ FiniteField(item.o.lineTotal)

\* C2: subtotal, tax and total of the record returned, and quantity, unitPrice
\* and lineTotal of each of its line items, are finite numbers.
C2_NumbersFinite ==
    Returned =>
        /\ FiniteField(ret.o.subtotal)
        /\ FiniteField(ret.o.tax)
        /\ FiniteField(ret.o.total)
        /\ \A i \in DOMAIN ReturnedItems : FiniteItem(ReturnedItems[i])

\* the line "B<tab>1e200 x 1e200" was parsed: two finite factors, and a
\* lineTotal of Infinity
C2_ProductOverflows ==
    /\ TextReturned
    /\ arg.s = BigItemLine
    /\ FiniteField(ReturnedItems[1].o.quantity)
    /\ FiniteField(ReturnedItems[1].o.unitPrice)
    /\ ReturnedItems[1].o.lineTotal = JNum(Inf(1))

\* C3: the invoiceDate returned is null or a string of the form
\* 4 digits, "-", 2 digits, "-", 2 digits.
C3_DateNullOrIso ==
    Returned =>
        \/ ret.o.invoiceDate = JNull
        \/ ret.o.invoiceDate.t = "str" /\ IsoMatch(ret.o.invoiceDate.s)

ShortYearDateStr == <<"2", "0", "2", "-", "0", "3", "-", "0", "4">>

\* the line "Date: 3/4/202" was parsed and the date returned is "202-03-04"
C3_ThreeDigitYear ==
    /\ TextReturned
    /\ arg.s = ShortYearLine
    /\ ret.o.invoiceDate = JStr(ShortYearDateStr)

\* no line item is recoverable from the input: no line of the text matches
\* the line regex, or the raw lineItems is no array or an empty one
NoItemRecoverable ==
    IF fn = "parseInvoiceText"
    THEN Len(PushedItems(TrimmedLines(ReplaceCRLF(arg.s)))) = 0
    ELSE Len(LineItemsArray(arg)) = 0

\* C4: when no line item is recoverable, the record holds exactly one item,
\* of quantity 1, whose unitPrice and lineTotal are the record's own total.
C4_SyntheticItemUsesTotal ==
    (Returned /\ NoItemRecoverable) =>
        /\ Len(ReturnedItems) = 1
        /\ IsNumber(ReturnedItems[1].o.quantity, Fin(1, 0))
        /\ ReturnedItems[1].o.unitPrice = ret.o.total
        /\ ReturnedItems[1].o.lineTotal = ret.o.total

\* the text "Total 21.60" was parsed: the total is 21.6 and the one item's
\* unitPrice and lineTotal are 0
C4_TotalOnlyText ==
    /\ TextReturned
    /\ arg.s = TotalLine
    /\ IsNumber(ret.o.total, Fin(216, -1))
    /\ Len(ReturnedItems) = 1
    /\ IsNumber(ReturnedItems[1].o.unitPrice, Zero)
    /\ IsNumber(ReturnedItems[1].o.lineTotal, Zero)

AcmeSuppliesStr == <<"A", "c", "m", "e", " ", "S", "u", "p", "p", "l", "i", "e", "s">>
Inv1002Str == <<"I", "N", "V", "-", "1", "0", "0", "2">>

\* the record the end-to-end scenario expects
EndToEndRecord ==
    Record(JStr(AcmeSuppliesStr), JStr(Inv1002Str), JStr(IsoDateStr),
           JNum(Fin(2, 1)), JNum(Fin(16, -1)), JNum(Fin(216, -1)),
           <<LineItem(WidgetStr, Fin(2, 0), Fin(1, 1), Fin(2, 1))>>)

SubtotalThenTotal == Join(<<SubtotalLine, TotalLine>>, <<"\n">>)

\* C5: subtotal and total are each the first number after their own label:
\* "Subtotal 20.00" before "Total 21.60" gives subtotal 20 and total 21.6,
\* and the end-to-end text gives the record the scenario expects.
C5_AmountsFollowOwnLabel ==
    TextReturned =>
        /\ arg.s = SubtotalThenTotal =>
              /\ IsNumber(ret.o.subtotal, Fin(2, 1))
              /\ IsNumber(ret.o.total, Fin(216, -1))
        /\ arg.s = EndToEndText => ret = EndToEndRecord

\* the end-to-end text was parsed: every field is the expected one but the
\* total, which is the subtotal's 20
C5_EndToEndTotalIsSubtotal ==
    /\ TextReturned
    /\ arg.s = EndToEndText
    /\ ret = [EndToEndRecord EXCEPT !.o.total = JNum(Fin(2, 1))]

\* the request has read the LLM message content: callOpenAiParser ran from
\* the content on
ContentRead(r) ==
    /\ r.pc = "done"
    /\ \/ r.norm = "done"
       \/ r.responses[1].details \in {"Empty LLM response", "SyntaxError"}

InvalidLlmJson(r) == r.responses[1].error = "Invalid LLM JSON"

\* the content is a string that parses as a JSON object
ParsesToObject(content) ==
    content.t = "str" /\ JsonParse(content).ok /\ JsonParse(content).value.t = "obj"

\* C6: a request fails with "Invalid LLM JSON" exactly when the content is
\* not a JSON object: a string that does not parse, a content that parses to
\* a number, an array or null, and an empty or missing content all raise it;
\* a JSON object never does and is answered with a normalized record.
C6_InvalidJsonUnlessObject ==
    \A i \in DOMAIN reqs :
        ContentRead(reqs[i]) =>
            /\ InvalidLlmJson(reqs[i]) <=> ~ParsesToObject(reqs[i].content)
            /\ ParsesToObject(reqs[i].content) =>
                  /\ reqs[i].responses[1].status = 200
                  /\ reqs[i].responses[1].body.t = "obj"

\* the content "42" was read and the request was answered 200 with a record
C6_NumberContentNormalized ==
    \E i \in DOMAIN reqs :
        /\ ContentRead(reqs[i])
        /\ reqs[i].content = JStr(NumberStr)
        /\ reqs[i].responses[1].status = 200
        /\ reqs[i].responses[1].body = normalizeInvoiceJson(JNum(Fin(42, 0)))

AllKeys ==
    {"vendor", "invoiceNumber", "invoiceDate", "subtotal", "tax", "total", "lineItems"}
ItemKeys == {"description", "quantity", "unitPrice", "lineTotal"}

CanonicalLineItem(item) ==
    /\ item.t = "obj"
    /\ DOMAIN item.o = ItemKeys
    /\ item.o.description.t = "str" /\ Len(item.o.description.s) > 0
    /\ FiniteItem(item)

\* a record of the canonical shape
IsCanonical(r) ==
    /\ r.t = "obj"
    /\ DOMAIN r.o = AllKeys
    /\ r.o.vendor.t = "str"
    /\ r.o.invoiceNumber.t \in {"str", "null"}
    /\ r.o.invoiceDate = JNull \/ (r.o.invoiceDate.t = "str" /\ IsoMatch(r.o.invoiceDate.s))
    /\ FiniteField(r.o.subtotal) /\ FiniteField(r.o.tax) /\ FiniteField(r.o.total)
    /\ r.o.lineItems.t = "arr"
    /\ Len(r.o.lineItems.a) >= 1
    /\ \A i \in DOMAIN r.o.lineItems.a : CanonicalLineItem(r.o.lineItems.a[i])

\* C7 as stated: normalizeInvoiceJson returns every canonical record unchanged.
C7_IdentityOnCanonical ==
    (JsonReturned /\ IsCanonical(arg)) => ret = arg

\* C7: normalizeInvoiceJson returns a canonical record unchanged when its
\* invoiceNumber is a string, and with invoiceNumber "" in place of null
\* otherwise; normalizing a record it returned returns that record.
C7_IdentityOnStringInvoiceNumber ==
    JsonReturned =>
        /\ IsCanonical(arg) =>
              ret = [arg EXCEPT !.o.invoiceNumber = safeString(@)]
        /\ (IsCanonical(arg) /\ arg.o.invoiceNumber.t = "str") => ret = arg
        /\ fed => IsCanonical(arg) /\ ret = arg

\* a canonical record with a string invoiceNumber, not one the function
\* returned, was normalized and came back unchanged
C7_CanonicalUnchanged ==
    /\ JsonReturned
    /\ ~fed
    /\ IsCanonical(arg)
    /\ arg.o.invoiceNumber = JStr(InvNoStr)
    /\ Len(arg.o.lineItems.a) = MaxItems
    /\ ret = arg

\* the input holds no invoice number: the regex matches nowhere in the text,
\* or the raw invoiceNumber is missing or no string
InvoiceNumberAbsent ==
    IF fn = "parseInvoiceText"
    THEN ~InvoiceNumberRegex(ReplaceCRLF(arg.s)).ok
    ELSE Get(arg, "invoiceNumber").t # "str"

\* C8 as stated: an absent invoice number is returned as null on both paths.
C8_AbsentIsNull ==
    (Returned /\ InvoiceNumberAbsent) => ret.o.invoiceNumber = JNull

\* C8: an absent invoice number is returned as the empty string, by
\* parseInvoiceText and by normalizeInvoiceJson alike.
C8_AbsentIsEmptyString ==
    (Returned /\ InvoiceNumberAbsent) => ret.o.invoiceNumber = JStr(<<>>)

\* a text with no invoice number label was parsed and the invoiceNumber
\* returned is ""
C8_NoLabelGivesEmptyString ==
    /\ TextReturned
    /\ arg.s = Join(<<AcmeLine, TotalLine>>, <<"\n">>)
    /\ ret.o.invoiceNumber = JStr(<<>>)

Steps(r) == <<r.ocr, r.llm, r.norm>>

\* C9: for every request, a step has started only when the one before it
\* succeeded; without fileContentBase64 the answer is 400 and no step starts;
\* a failed step is answered with an error and nothing runs after it; there
\* is one response when the handler is done and none before; a 200 carries
\* a record and is sent only when OCR, LLM parse and normalization succeeded.
C9_StepsInOrderOneResponse ==
    \A i \in DOMAIN reqs :
        LET r == reqs[i]
        IN  /\ r.llm # "no" => r.ocr = "ok"
            /\ r.norm # "no" => r.llm = "ok"
            /\ r.body = "missing" =>
                  /\ Steps(r) = <<"no", "no", "no">>
                  /\ Len(r.responses) = 1 /\ r.responses[1].status = 400
            /\ ("failed" \in {r.ocr, r.llm}) =>
                  /\ r.pc = "done"
                  /\ r.responses[1].status = 500
                  /\ r.norm = "no"
            /\ Len(r.responses) = (IF r.pc = "done" THEN 1 ELSE 0)
            /\ (r.pc = "done" /\ r.responses[1].status = 200) <=>
                  Steps(r) = <<"ok", "ok", "done">>
            /\ (r.pc = "done" /\ r.responses[1].status = 200) =>
                  IsCanonical(r.responses[1].body)

\* two requests are done: one answered 200 after its three steps, one
\* answered 500 after its LLM step failed
C9_OneServedOneFailed ==
    \E i, j \in DOMAIN reqs :
        /\ reqs[i].pc = "done" /\ reqs[i].responses[1].status = 200
        /\ Steps(reqs[i]) = <<"ok", "ok", "done">>
        /\ reqs[j].pc = "done" /\ reqs[j].responses[1].status = 500
        /\ Steps(reqs[j]) = <<"ok", "failed", "no">>

Outstanding == \E i \in DOMAIN calls : calls[i] = "pending"

\* C10: isProcessing, and with it disableProcessButton, is true whenever a
\* startOcr call is outstanding, and isProcessing is false when none is.
C10_ProcessingWhileOutstanding ==
    /\ Outstanding => isProcessing /\ disableProcessButton
    /\ ~Outstanding => ~isProcessing

\* two startOcr calls were made, one has settled and one is outstanding,
\* and isProcessing is false
C10_IdleWithCallOutstanding ==
    /\ Len(calls) = 2
    /\ calls[1] = "pending"
    /\ calls[2] # "pending"
    /\ ~isProcessing
    /\ ~disableProcessButton

====
